---- MODULE Spec2Model ----
(***************************************************************************)
(* Model of the EDID decoder of format/edid: the 128-byte base record      *)
(* (decodeEDID), the chained 128-byte extension records (CEA-861 and       *)
(* DisplayID sub-decoders, opaque fallback), the shared checksum           *)
(* (CalcSum) and the pure helpers (aspectRatio, decodeStandardTimings).    *)
(*                                                                         *)
(* A buffer is a sequence of bytes; byte offset i of the code is element   *)
(* i+1 of the sequence.  Cursor positions are in bits, as in the code.     *)
(***************************************************************************)
EXTENDS Integers, Sequences, FiniteSets, TLC

VARIABLES buf, pc, pos, ec, tree, ext, exts, iter, arg, ret

vars == <<buf, pc, pos, ec, tree, ext, exts, iter, arg, ret>>

(***************************************************************************)
(* Bounds of the model and constants of the program.                       *)
(***************************************************************************)
\* largest extension_count byte and largest number of extension windows tried
MaxExt == 2

\* a byte holds 0..ByteMax
ByteMax == 255

\* size of a record (base or extension) in bytes
RecordBytes == 128

\* aspectRatio tries the denominators 1..MaxDenominator
MaxDenominator == 20

\* the tolerance of aspectRatio is 1/ToleranceInv
ToleranceInv == 100

Byte == 0..ByteMax

\* var ec edidContext
NoEc == [revision |-> 0, contFreq |-> FALSE]

Abs(x) == IF x < 0 THEN -x ELSE x

Pow2(n) == 2^n

(***************************************************************************)
(* Reading the buffer.  Bits are numbered from the most significant bit of *)
(* byte 0.                                                                 *)
(***************************************************************************)
ByteAt(b, i) == b[i + 1]

BitAt(b, p) == (ByteAt(b, p \div 8) \div Pow2(7 - (p % 8))) % 2

\* the n bits from bit p, most significant first (U1..U8, PeekUintBits)
RECURSIVE UBits(_, _, _)
UBits(b, p, n) ==
  IF n = 0 THEN 0 ELSE 2 * UBits(b, p, n - 1) + BitAt(b, p + n - 1)

\* bytes first..first+n-1 of the buffer (BytesRange with a byte-aligned start)
BytesRange(b, firstBit, nBytes) == SubSeq(b, (firstBit \div 8) + 1, (firstBit \div 8) + nBytes)

(***************************************************************************)
(* CalcSum: a uint8 accumulator, so every addition wraps at 256.  Addition *)
(* modulo 256 is associative; the additions of the loop are grouped as a   *)
(* balanced tree, which keeps the evaluation shallow.                      *)
(***************************************************************************)
RECURSIVE CalcSumRange(_, _, _)
CalcSumRange(bytes, lo, hi) ==
  IF lo > hi THEN 0
  ELSE IF lo = hi THEN bytes[lo] % 256
  ELSE LET mid == (lo + hi) \div 2
       IN (CalcSumRange(bytes, lo, mid) + CalcSumRange(bytes, mid + 1, hi)) % 256

CalcSum(bytes) == CalcSumRange(bytes, 1, Len(bytes))

\* uint64(0-sum) with sum a uint8: the subtraction wraps in 8 bits
NegSum(sum) == (256 - sum) % 256

(***************************************************************************)
(* aspectRatio.  The aspect is the rational p/q that the float64 value     *)
(* approximates.  m = uint64(aspect*n + 0.5) is floor((2pn+q)/(2q)).  The  *)
(* comparison |aspect - m/n| < 0.01 is decided by the exact values except  *)
(* when the difference is exactly 1/100: there the float64 rounding of     *)
(* the operands decides, and the model allows both outcomes.               *)
(***************************************************************************)
RECURSIVE greatest_common_divisor(_, _)
greatest_common_divisor(a, b) ==
  IF b = 0 THEN a ELSE greatest_common_divisor(b, a % b)

Sprintf_d_d(w, h) == ToString(w) \o ":" \o ToString(h)

aspectRatioEdgeCase(try) ==
  CASE try = "8:5" -> "16:10"
    [] try = "5:8" -> "10:16"
    [] try = "7:3" -> "21:9"
    [] try = "3:7" -> "9:21"
    [] OTHER -> try

\* mutant: the edge-case table is not consulted
aspectRatioDenominator_noEdge(width, height) ==
  LET gcd == greatest_common_divisor(width, height)
  IN Sprintf_d_d(width \div gcd, height \div gcd)

aspectRatioDenominator(width, height) ==
  LET gcd == greatest_common_divisor(width, height)
      nWidth == width \div gcd
      nHeight == height \div gcd
  IN aspectRatioEdgeCase(Sprintf_d_d(nWidth, nHeight))

\* a decimal digit string of exactly k digits
RECURSIVE Digits(_, _)
Digits(x, k) == IF k = 0 THEN "" ELSE Digits(x \div 10, k - 1) \o ToString(x % 10)

\* fmt.Sprintf("%2f", aspect): six decimals, round half to even
Sprintf_2f(a) ==
  LET num == a.p * 1000000
      fl == num \div a.q
      r2 == 2 * (num % a.q)
      micro == IF r2 > a.q \/ (r2 = a.q /\ fl % 2 = 1) THEN fl + 1 ELSE fl
  IN ToString(micro \div 1000000) \o "." \o Digits(micro % 1000000, 6)

RoundM(a, n) == (2 * a.p * n + a.q) \div (2 * a.q)

\* ToleranceInv * |aspect - m/n| * (q*n), to compare with q*n
Dist(a, m, n) == ToleranceInv * Abs(a.p * n - m * a.q)

\* the set of strings aspectRatio can return, from denominator n onwards
RECURSIVE aspectRatioFrom(_, _)
aspectRatioFrom(a, n) ==
  IF n > MaxDenominator THEN {Sprintf_2f(a)}
  ELSE LET m == RoundM(a, n)
       IN IF Dist(a, m, n) < a.q * n THEN {aspectRatioDenominator(m, n)}
          ELSE IF Dist(a, m, n) = a.q * n
               THEN {aspectRatioDenominator(m, n)} \cup aspectRatioFrom(a, n + 1)
               ELSE aspectRatioFrom(a, n + 1)

aspectRatio(a) == aspectRatioFrom(a, 1)

\* mutant: the both-zero test is missing and the landscape formula serves
\* every input with a zero vertical size
AspectRatioField_noUndefined(hScreenSize, vScreenSize) ==
  IF vScreenSize = 0 THEN aspectRatio([p |-> hScreenSize + 99, q |-> 100])
  ELSE aspectRatio([p |-> hScreenSize, q |-> vScreenSize])

\* the aspect_ratio field of decodeBasicDisplayParameters
AspectRatioField(hScreenSize, vScreenSize) ==
  IF hScreenSize = 0 /\ vScreenSize = 0 THEN {"undefined"}
  ELSE IF hScreenSize = 0 THEN aspectRatio([p |-> 100, q |-> vScreenSize + 99])
  ELSE IF vScreenSize = 0 THEN aspectRatio([p |-> hScreenSize + 99, q |-> 100])
  ELSE aspectRatio([p |-> hScreenSize, q |-> vScreenSize])

(***************************************************************************)
(* Emitted fields.  A field has a name, the bit range it is attached to,   *)
(* its raw value and what the mappers added: a string symbol (sym), a      *)
(* numeric symbol (num, -1 when absent) and a description (desc).          *)
(***************************************************************************)
Fld(name, first, len, val, sym, num, desc) ==
  [name |-> name, first |-> first, len |-> len, val |-> val,
   sym |-> sym, num |-> num, desc |-> desc]

FU(name, first, len, val) == Fld(name, first, len, val, "", -1, "")

FSym(name, first, len, val, sym) == Fld(name, first, len, val, sym, -1, "")

FNum(name, first, len, val, num) == Fld(name, first, len, val, "", num, "")

FDesc(name, first, len, val, desc) == Fld(name, first, len, val, "", -1, desc)

\* a scalar.UintMapSymStr given as a sequence indexed from value 0
MapSymStr(table, v) == IF v + 1 \in DOMAIN table THEN table[v + 1] ELSE ""

(***************************************************************************)
(* Reads of whole bytes.  FieldU16/FieldU32 follow d.Endian, which         *)
(* decodeEDID sets to little endian; FieldU16BE is big endian.             *)
(***************************************************************************)
U8(b, p) == UBits(b, p, 8)

RECURSIVE ULE(_, _, _)
ULE(b, p, nBytes) ==
  IF nBytes = 0 THEN 0 ELSE U8(b, p) + 256 * ULE(b, p + 8, nBytes - 1)

U16BE(b, p) == 256 * U8(b, p) + U8(b, p + 8)

BoolSym(bit) == IF bit = 1 THEN "true" ELSE "false"

FBool(name, b, p) == FSym(name, p, 1, UBits(b, p, 1), BoolSym(UBits(b, p, 1)))

(***************************************************************************)
(* decodeFileHeader (bytes 0-19).  A failed AssertBitBuf is fatal: the     *)
(* result has ok = FALSE and no field.                                     *)
(***************************************************************************)
Magic == <<0, 255, 255, 255, 255, 255, 255, 0>>

Letters == <<"@", "A", "B", "C", "D", "E", "F", "G", "H", "I", "J", "K", "L", "M", "N", "O",
             "P", "Q", "R", "S", "T", "U", "V", "W", "X", "Y", "Z", "[", "\\", "]", "^", "_">>

fiveBitLetter(code) == Letters[code + 1]

manufacturerMapper(actual) ==
  fiveBitLetter((actual \div 1024) % 32) \o fiveBitLetter((actual \div 32) % 32)
    \o fiveBitLetter(actual % 32)

yearMapper(actual) == actual + 1990

\* mutant: the magic is validated but a mismatch is not fatal
AssertMagic_validateOnly(b, p) == TRUE

\* d.AssertBitBuf on the identifier
AssertMagic(b, p) == BytesRange(b, p, 8) = Magic

decodeFileHeader(b, p) ==
  LET week == U8(b, p + 128)
  IN IF ~AssertMagic(b, p) THEN [ok |-> FALSE, pos |-> p, fields |-> << >>, revision |-> 0]
     ELSE [ok |-> TRUE, pos |-> p + 160, revision |-> U8(b, p + 152),
           fields |-> <<
             FDesc("identifier", p, 64, -1, IF BytesRange(b, p, 8) = Magic THEN "valid" ELSE "invalid"),
             FSym("manufacturer_id", p + 64, 16, U16BE(b, p + 64), manufacturerMapper(U16BE(b, p + 64))),
             FU("manufacturer_product_code", p + 80, 16, ULE(b, p + 80, 2)),
             FU("serial_number", p + 96, 32, ULE(b, p + 96, 4)),
             FU("week_of_manufacture", p + 128, 8, week),
             FNum(IF week = 255 THEN "year_of_model" ELSE "year_of_manufacture",
                  p + 136, 8, U8(b, p + 136), yearMapper(U8(b, p + 136))),
             FU("edid_version", p + 144, 8, U8(b, p + 144)),
             FU("edid_revision", p + 152, 8, U8(b, p + 152)) >>]

(***************************************************************************)
(* decodeBasicDisplayParameters (bytes 20-24); aspect is the string chosen *)
(* for the aspect_ratio field.                                             *)
(***************************************************************************)
interfaceMapper == <<"undefined", "dvi", "hdmia", "hdmib", "mddi", "displayport">>

bitDepthSym == <<"undefined", "", "", "", "", "", "", "reserved">>

bitDepthNum == <<-1, 6, 8, 10, 12, 14, 16, -1>>

decodeBasicDisplayParameters(b, p, revision, aspect) ==
  LET inputType == UBits(b, p, 1)
      hScreenSize == U8(b, p + 8)
      vScreenSize == U8(b, p + 16)
      q == p + 32
  IN [ok |-> TRUE, pos |-> p + 40, contFreq |-> UBits(b, q + 7, 1) = 1,
      fields |->
        << FSym("input_type", p, 1, inputType, MapSymStr(<<"analog", "digital">>, inputType)) >>
        \o (IF inputType = 1
            THEN << Fld("bit_depth", p + 1, 3, UBits(b, p + 1, 3),
                        bitDepthSym[UBits(b, p + 1, 3) + 1], bitDepthNum[UBits(b, p + 1, 3) + 1], ""),
                    FSym("video_interface", p + 4, 4, UBits(b, p + 4, 4),
                         MapSymStr(interfaceMapper, UBits(b, p + 4, 4))) >>
            ELSE << FU("white_sync_leves_relative_to_blank", p + 1, 2, UBits(b, p + 1, 2)),
                    FBool("blank_to_black_setup_expected", b, p + 3),
                    FBool("separate_sync_supported", b, p + 4),
                    FBool("composite_sync_on_hsync_supported", b, p + 5),
                    FBool("sync_on_green_supported", b, p + 6),
                    FBool("serration_on_vsync_supported", b, p + 7) >>)
        \o << FDesc("horizontal_screen_size", p + 8, 8, hScreenSize, "cm"),
              FDesc("vertical_screen_size", p + 16, 8, vScreenSize, "cm"),
              FSym("aspect_ratio", p + 24, 0, -1, aspect),
              \* gamma: the symbol raw/100 + 1 is kept in hundredths
              FNum("gamma", p + 24, 8, U8(b, p + 24), U8(b, p + 24) + 100),
              FBool("dpms_standby_supported", b, q),
              FBool("dpms_suspend_supported", b, q + 1),
              FBool("dpms_active_off_supported", b, q + 2),
              FDesc("display_type", q + 3, 2, UBits(b, q + 3, 2),
                    IF inputType = 1 THEN "digital" ELSE "analog"),
              FBool("standard_srgb_color_space", b, q + 5),
              FBool(IF revision = 3 \/ revision = 4
                    THEN "preferred_timing_block_includes_npf_rr"
                    ELSE "preferred_timing_mode_in_block_1", b, q + 6),
              FBool("continuous_frequency_supported", b, q + 7) >>]

(***************************************************************************)
(* decodeChromaticityCoordinates (bytes 25-34): every coordinate is        *)
(* low + (high << 2); the float symbol is that value over 1024.            *)
(***************************************************************************)
ChromaNames == <<"red_x", "red_y", "green_x", "green_y", "blue_x", "blue_y", "white_x", "white_y">>

decodeChromaticityCoordinates(b, p) ==
  LET ccStart == p
      ccLen == 80
      low(k) == UBits(b, p + 2 * (k - 1), 2)
      high(k) == U8(b, p + 16 + 8 * (k - 1))
  IN [ok |-> TRUE, pos |-> p + 80,
      fields |-> [k \in 1..8 |->
                    Fld(ChromaNames[k], ccStart, ccLen, -1, "", low(k) + (high(k) * 4), "/1024")]]

(***************************************************************************)
(* decodeEstablishedTimings (bytes 35-37) and mapTimings: one field per    *)
(* set bit, bit 0 being the least significant.                             *)
(***************************************************************************)
establishedTimingsIMapper ==
  <<"800x600@60Hz", "800x600@56Hz", "640x480@75Hz", "640x480@72Hz",
    "640x480@67Hz", "640x480@60Hz", "720x400@88Hz", "720x400@70Hz">>

establishedTimingsIIMapper ==
  <<"1280x1024@75Hz", "1024x768@75Hz", "1024x768@70Hz", "1024x768@60Hz",
    "1024x768@87Hz(I)", "832x624@75Hz", "800x600@75Hz", "800x600@72Hz">>

manufacturerTimingsMapper ==
  <<"reserved", "reserved", "reserved", "reserved",
    "reserved", "reserved", "reserved", "1152x870@75Hz">>

RECURSIVE mapTimingsFrom(_, _, _, _)
mapTimingsFrom(flags, firstBit, table, i) ==
  IF i >= 8 THEN << >>
  ELSE (IF (flags \div Pow2(i)) % 2 = 1
        THEN << FSym("timing", firstBit, 8, i, MapSymStr(table, i)) >>
        ELSE << >>) \o mapTimingsFrom(flags, firstBit, table, i + 1)

mapTimings(flags, firstBit, table) == mapTimingsFrom(flags, firstBit, table, 0)

decodeEstablishedTimings(b, p) ==
  [ok |-> TRUE, pos |-> p + 24,
   fields |-> mapTimings(U8(b, p), p, establishedTimingsIMapper)
              \o mapTimings(U8(b, p + 8), p + 8, establishedTimingsIIMapper)
              \o mapTimings(U8(b, p + 16), p + 16, manufacturerTimingsMapper)]

(***************************************************************************)
(* decodeStandardTimings.  d.Endian is little endian (decodeEDID), so      *)
(* d.U64() makes the first byte read the least significant one.  A 64-bit  *)
(* value is kept as its eight bytes, least significant first.              *)
(***************************************************************************)
U64(b, p) == [k \in 0..7 |-> ByteAt(b, (p \div 8) + k)]

\* block >> sh & mask, for a shift that is a multiple of 8 and a mask below 256
ShrAnd(block, sh, mask) == block[sh \div 8] % (mask + 1)

horizontalAddressablePixelsMapper(actual) == (actual + 31) * 8

refreshRateMapper(actual) == actual + 60

StdAspectSym == <<"16:10", "4:3", "5:4", "16:9">>

\* one iteration of the loop of timingBlock: the timing structs it emits
timingSlot(block, firstBit, i) ==
  LET blockIdx == 3 - i
      fStart == firstBit + (blockIdx * 16)
      sStart == fStart + 8
      first == ShrAnd(block, (2 * i + 1) * 8, 15)
      second == ShrAnd(block, (2 * i) * 8, 15)
      aspect == (second \div 64) % 4
      refresh == second % 64
  IN IF first # 1 \/ second # 1
     THEN << << FNum("horizontal_adressable_pixels", fStart, 8, first,
                     horizontalAddressablePixelsMapper(first)),
                FSym("aspect_ratio", sStart, 2, aspect, MapSymStr(StdAspectSym, aspect)),
                FNum("refresh_rate", sStart + 2, 6, refresh, refreshRateMapper(refresh)) >> >>
     ELSE << >>

timingBlock(block, firstBit) ==
  timingSlot(block, firstBit, 3) \o timingSlot(block, firstBit, 2)
    \o timingSlot(block, firstBit, 1) \o timingSlot(block, firstBit, 0)

decodeStandardTimings(b, p) ==
  LET comboStart == p
      timing1to4 == U64(b, p)
      timing5to8 == U64(b, p + 64)
  IN [ok |-> TRUE, pos |-> p + 128,
      fields |-> timingBlock(timing1to4, comboStart) \o timingBlock(timing5to8, comboStart + 64)]

(***************************************************************************)
(* DetailedTimingDescriptor (18 bytes).  The values are uint64; the two    *)
(* derived back porches are the only ones that can leave 0..4095, so they  *)
(* are kept as four 16-bit limbs, least significant first, and the         *)
(* subtraction wraps at 2^64.                                              *)
(***************************************************************************)
Uint64Limbs(x) ==
  IF x >= 0 THEN <<x % 65536, x \div 65536, 0, 0>>
  ELSE <<65536 + x, 65535, 65535, 65535>>

stereoMapper(actual) ==
  LET test == 64 * ((actual \div 64) % 2) + 32 * ((actual \div 32) % 2) + (actual % 2)
  IN CASE test \in {0, 1} -> "normal"
       [] test = 32 -> "field_seq_right"
       [] test = 33 -> "2way_right"
       [] test = 64 -> "field_seq_left"
       [] test = 65 -> "2way_left"
       [] test = 96 -> "4way"
       [] test = 97 -> "side_by_side"
       [] OTHER -> ""

Polarity == <<"negative", "positive">>

SyncSignalSym(firstTwo) ==
  CASE firstTwo = 0 -> "analog_composite"
    [] firstTwo = 4 -> "bipolar_analog_composite"
    [] firstTwo = 8 -> "digital_composite"
    [] firstTwo = 12 -> "digital_separate"
    [] OTHER -> ""

DetailedTimingDescriptor(b, p) ==
  LET hStart == p + 16
      hav0 == U8(b, hStart)
      hblank0 == U8(b, hStart + 8)
      hav1 == UBits(b, hStart + 16, 4)
      hblank1 == UBits(b, hStart + 20, 4)
      hLen == 24
      hblank == hblank0 + (hblank1 * 256)
      vStart == hStart + 24
      vav0 == U8(b, vStart)
      vblank0 == U8(b, vStart + 8)
      vav1 == UBits(b, vStart + 16, 4)
      vblank1 == UBits(b, vStart + 20, 4)
      vLen == 24
      vblank == vblank0 + (vblank1 * 256)
      pStart == vStart + 24
      hfp0 == U8(b, pStart)
      hspw0 == U8(b, pStart + 8)
      vfp0 == UBits(b, pStart + 16, 4)
      vspw0 == UBits(b, pStart + 20, 4)
      hfp1 == UBits(b, pStart + 24, 2)
      hspw1 == UBits(b, pStart + 26, 2)
      vfp1 == UBits(b, pStart + 28, 2)
      vspw1 == UBits(b, pStart + 30, 2)
      pLen == 32
      hfp == hfp0 + (hfp1 * 256)
      hspw == hspw0 + (hspw1 * 256)
      vfp == vfp0 + (vfp1 * 256)
      vspw == vspw0 + (vspw1 * 256)
      iStart == pStart + 32
      havis0 == U8(b, iStart)
      vavis0 == U8(b, iStart + 8)
      havis1 == UBits(b, iStart + 16, 4)
      vavis1 == UBits(b, iStart + 20, 4)
      iLen == 24
      bStart == iStart + 24
      fStart == bStart + 16
      \* after signal_interface_type (1 bit) and stereo_viewing_support (7 bits)
      \* the cursor is at fStart + 8; SeekRel(-5) puts it at fStart + 3
      sStart == (fStart + 8) - 5
      sync == UBits(b, sStart, 4)
      sLen == 4
      endPos == sStart + 4 + 1
      firstTwo == 4 * ((sync \div 4) % 4)
      third == 2 * ((sync \div 2) % 2)
      fourth == sync % 2
  IN [ok |-> TRUE, pos |-> endPos,
      fields |-> <<
        Fld("pixel_clock", p, 16, ULE(b, p, 2), "", ULE(b, p, 2), "MHz"),
        FDesc("horizontal_addressable_video", hStart, hLen, hav0 + (hav1 * 256), "pixels"),
        FDesc("horizontal_blanking", hStart, hLen, hblank, "pixels"),
        FDesc("vertical_addressable_video", vStart, vLen, vav0 + (vav1 * 256), "lines"),
        FDesc("vertical_blanking", vStart, vLen, vblank, "lines"),
        FDesc("horizontal_front_porch", pStart, pLen, hfp, "pixels"),
        FDesc("horizontal_sync_pulse_width", pStart, pLen, hspw, "pixels"),
        FDesc("horizontal_back_porch", pStart, pLen, Uint64Limbs(hblank - hfp - hspw), "pixels"),
        FDesc("vertical_front_porch", pStart, pLen, vfp, "lines"),
        FDesc("vertical_sync_pulse_width", pStart, pLen, vspw, "lines"),
        FDesc("vertical_back_porch", pStart, pLen, Uint64Limbs(vblank - vfp - vspw), "lines"),
        FDesc("horizontal_addressable_video_image_size", iStart, iLen, havis0 + (havis1 * 256), "mm"),
        FDesc("vertical_addressable_video_image_size", iStart, iLen, vavis0 + (vavis1 * 256), "mm"),
        FDesc("horizontal_border_left_right", bStart, 8, U8(b, bStart), "mm"),
        FDesc("vertical_border_left_right", bStart + 8, 8, U8(b, bStart + 8), "mm"),
        FSym("signal_interface_type", fStart, 1, UBits(b, fStart, 1),
             MapSymStr(<<"non-interlaced", "interlaced">>, UBits(b, fStart, 1))),
        FSym("stereo_viewing_support", fStart + 1, 7, UBits(b, fStart + 1, 7),
             stereoMapper(UBits(b, fStart + 1, 7))),
        FSym("sync_signal", sStart, sLen, firstTwo, SyncSignalSym(firstTwo)),
        IF firstTwo = 12
        THEN FSym("vsync_polarity", sStart, sLen, third, MapSymStr(Polarity, third))
        ELSE FSym("with_serrations", sStart, sLen, third, MapSymStr(<<"false", "true">>, third)),
        IF firstTwo = 12 \/ firstTwo = 8
        THEN FSym("hsync_polarity", sStart, sLen, fourth, MapSymStr(Polarity, fourth))
        ELSE FSym("sync_on", sStart, sLen, fourth, MapSymStr(<<"green_only", "rgb">>, fourth)) >>]

(***************************************************************************)
(* DetailedDescriptor: one 18-byte slot, framed (d.FramedFn(18*8, ...)),   *)
(* decoded as a display descriptor when its first 16 bits are zero and as  *)
(* a detailed timing descriptor otherwise.  lim is the end of the          *)
(* enclosing frame in bits.                                                *)
(***************************************************************************)
DescriptorBits == 144

RangePadding == <<10, 32, 32, 32, 32, 32, 32>>

\* the "data" struct of tag 0xfd (display range limits), read from bit p
RangeLimits(b, p, maybeFlags) ==
  LET minVertOffset == IF maybeFlags % 4 = 3 THEN 255 ELSE 0
      maxVertOffset == IF (maybeFlags \div 2) % 2 = 1 THEN 255 ELSE 0
      minHoriOffset == IF (maybeFlags \div 4) % 4 = 3 THEN 255 ELSE 0
      maxHoriOffset == IF (maybeFlags \div 8) % 2 = 1 THEN 255 ELSE 0
  IN [ok |-> BytesRange(b, p + 48, 7) = RangePadding,
      fields |-> <<
        FDesc("min_vertical_refresh", p, 8, U8(b, p) + minVertOffset, "Hz"),
        FDesc("max_vertical_refresh", p + 8, 8, U8(b, p + 8) + maxVertOffset, "Hz"),
        FDesc("min_horizontal_refresh", p + 16, 8, U8(b, p + 16) + minHoriOffset, "kHz"),
        FDesc("max_horizontal_refresh", p + 24, 8, U8(b, p + 24) + maxHoriOffset, "kHz"),
        Fld("max_pixel_clock", p + 32, 8, U8(b, p + 32), "", U8(b, p + 32) * 10, "MHz"),
        FU("video_timing_support_flags", p + 40, 8, U8(b, p + 40)),
        FDesc("padding", p + 48, 56, -1, "valid") >>]

\* frameEnd is the end of the frame the descriptor is read in
DisplayDescriptor(b, p, frameEnd) ==
  LET tag == U8(b, p + 24)
      maybeFlags == U8(b, p + 32)
      q == p + 40
      bitsLeft == frameEnd - q
      head == << FDesc("identifer", p, 24, -1, "valid"),
                 FU("tag", p + 24, 8, tag),
                 FU("reserved", p + 32, 8, maybeFlags) >>
  IN IF BytesRange(b, p, 3) # <<0, 0, 0>>
     THEN [ok |-> FALSE, pos |-> p, fields |-> << >>]
     ELSE CASE tag \in {252, 254, 255} ->
                 [ok |-> TRUE, pos |-> q + 104, fields |-> head \o << FU("value", q, 104, -1) >>]
            [] tag = 253 ->
                 IF RangeLimits(b, q, maybeFlags).ok
                 THEN [ok |-> TRUE, pos |-> q + 104,
                       fields |-> head \o RangeLimits(b, q, maybeFlags).fields]
                 ELSE [ok |-> FALSE, pos |-> q + 48, fields |-> << >>]
            [] tag = 250 ->
                 [ok |-> TRUE, pos |-> q + bitsLeft,
                  fields |-> head \o << FU("standard_timing_identifiers", q, bitsLeft, -1) >>]
            [] tag = 251 ->
                 [ok |-> TRUE, pos |-> q + bitsLeft,
                  fields |-> head \o << FU("color_point", q, bitsLeft, -1) >>]
            [] OTHER ->
                 [ok |-> TRUE, pos |-> q + bitsLeft,
                  fields |-> head \o << FU("manufacturer_tag", q, bitsLeft, -1) >>]

\* the struct of one descriptor slot, given the decode r of its 18-byte frame
DescriptorStruct(p, lim, blockName, r) ==
  IF p + DescriptorBits > lim \/ ~r.ok
  THEN [ok |-> FALSE, pos |-> p, name |-> blockName, fields |-> << >>]
  ELSE [ok |-> TRUE, pos |-> p + DescriptorBits, name |-> blockName, fields |-> r.fields]

DetailedDescriptor(b, p, lim, name, blockNo) ==
  LET blockType == UBits(b, p, 16)
      blockName == IF blockType = 0 THEN "display_descriptor_" \o ToString(blockNo - 1)
                   ELSE IF blockNo > 1 THEN name \o "_" \o ToString(blockNo)
                   ELSE name
  IN DescriptorStruct(p, lim, blockName,
                      IF blockType = 0 THEN DisplayDescriptor(b, p, p + DescriptorBits)
                      ELSE DetailedTimingDescriptor(b, p))

(***************************************************************************)
(* The checksum field of a record: FieldU8 with d.UintValidate(0-sum),     *)
(* which describes the value as valid or invalid and never fails.          *)
(***************************************************************************)
\* mutant: the expected value is the sum itself
ChecksumField_sum(b, p, sum) ==
  FDesc("checksum", p, 8, U8(b, p), IF U8(b, p) = sum THEN "valid" ELSE "invalid")

ChecksumField(b, p, sum) ==
  FDesc("checksum", p, 8, U8(b, p), IF U8(b, p) = NegSum(sum) THEN "valid" ELSE "invalid")

Failed(p) == [ok |-> FALSE, pos |-> p, fields |-> << >>]

(***************************************************************************)
(* decodeCEAExtension, on the 128-byte window w of the extension.  A raw   *)
(* field of negative length or one that passes the end of the window is    *)
(* fatal.                                                                  *)
(***************************************************************************)
WindowBits == RecordBytes * 8

\* mutant: the trailing data span is one byte short
CEADataBytes_short(offset) == 122 - 32 - offset

\* the length in bytes of the trailing data span
CEADataBytes(offset) == 123 - 32 - offset

\* decodeCEAExtension after its two descriptors d1 and d2: the data span and
\* the checksum
CEAData(w, offset, d1, d2) ==
  LET padBits == (offset - 4) * 8
      dataBits == CEADataBytes(offset) * 8
      p3 == d2.pos + dataBits
  IN IF ~d2.ok THEN Failed(d1.pos)
     ELSE IF dataBits < 0 \/ p3 > WindowBits THEN Failed(d2.pos)
     ELSE IF p3 + 8 > WindowBits THEN Failed(p3)
     ELSE [ok |-> TRUE, pos |-> p3 + 8,
           fields |-> << FU("tag", 0, 8, U8(w, 0)),
                         FU("revision", 8, 8, U8(w, 8)),
                         FU("offset", 16, 8, offset),
                         FU("reserved", 24, 8, U8(w, 24)),
                         FU("padding", 32, padBits, -1) >>
                      \o d1.fields \o d2.fields
                      \o << FU("data", d2.pos, dataBits, -1),
                            ChecksumField(w, p3, CalcSum(BytesRange(w, 0, 127))) >>]

\* decodeCEAExtension after its first descriptor d1
CEAFourthDescriptor(w, offset, p1, d1) ==
  IF ~d1.ok THEN Failed(p1)
  ELSE CEAData(w, offset, d1,
               DetailedDescriptor(w, d1.pos, WindowBits, "fourth_timing_descriptor", 1))

decodeCEAExtension(w) ==
  LET offset == U8(w, 16)
      padBits == (offset - 4) * 8
      p1 == 32 + padBits
  IN IF U8(w, 0) # 2 THEN Failed(0)
     ELSE IF padBits < 0 \/ p1 > WindowBits THEN Failed(32)
     ELSE CEAFourthDescriptor(w, offset, p1,
            DetailedDescriptor(w, p1, WindowBits, "third_timing_descriptor", 1))

(***************************************************************************)
(* DisplayID extension: decodeTagTimingIDetailed, the data-block loop of   *)
(* decodeDisplayID and decodeDisplayIDExtension.  Sub-decoders read big    *)
(* endian unless the read names its byte order.                            *)
(***************************************************************************)
aspectMap == <<"1:1", "5:4", "4:3", "15:9", "16:9", "16:10", "64:27", "256:135", "undefined">>

\* the fields of one 20-byte Type I timing read from bit p
TimingIDetailed(w, p) ==
  LET clkStart == p
      pixelClock == U8(w, p) + (U8(w, p + 8) * 256) + (U8(w, p + 16) * 65536)
      f == p + 24
      hfpStart == p + 64
      hfp == U8(w, hfpStart) + (UBits(w, hfpStart + 9, 7) * 256)
      vfpStart == p + 128
      vfp == U8(w, vfpStart) + (UBits(w, vfpStart + 9, 7) * 256)
  IN << Fld("pixel_clock", clkStart, 24, pixelClock + 1, "", pixelClock + 1, "MHz"),
        FBool("preferred_timing", w, f),
        FSym("3d_stereo_support", f + 1, 2, UBits(w, f + 1, 2),
             MapSymStr(<<"no_stereo", "always_stereo", "switchable_stereo">>, UBits(w, f + 1, 2))),
        FSym("scan_type", f + 3, 1, UBits(w, f + 3, 1),
             MapSymStr(<<"progressive", "interlaced">>, UBits(w, f + 3, 1))),
        FSym("aspect_ratio", f + 4, 4, UBits(w, f + 4, 4), MapSymStr(aspectMap, UBits(w, f + 4, 4))),
        FU("horizontal_active_image_pixels", p + 32, 16, ULE(w, p + 32, 2) + 1),
        FU("horizontal_blank_pixels", p + 48, 16, ULE(w, p + 48, 2) + 1),
        FSym("horizontal_sync_polarity", hfpStart + 8, 1, UBits(w, hfpStart + 8, 1),
             MapSymStr(Polarity, UBits(w, hfpStart + 8, 1))),
        FDesc("horizontal_front_porch", hfpStart, 16, hfp + 1, "pixels"),
        FDesc("horizontal_sync_width", p + 80, 16, ULE(w, p + 80, 2) + 1, "pixels"),
        FU("vertical_active_image_lines", p + 96, 16, ULE(w, p + 96, 2) + 1),
        FU("vertical_blank_lines", p + 112, 16, ULE(w, p + 112, 2) + 1),
        FSym("vertical_sync_polarity", vfpStart + 8, 1, UBits(w, vfpStart + 8, 1),
             MapSymStr(Polarity, UBits(w, vfpStart + 8, 1))),
        FDesc("vertical_front_porch", vfpStart, 16, vfp + 1, "lines"),
        FDesc("vertical_sync_width", p + 144, 16, ULE(w, p + 144, 2) + 1, "lines") >>

RECURSIVE TimingsFrom(_, _, _, _)
TimingsFrom(w, p, i, numberOfTimings) ==
  IF i >= numberOfTimings THEN << >>
  ELSE TimingIDetailed(w, p) \o TimingsFrom(w, p + 160, i + 1, numberOfTimings)

\* decodeTagTimingIDetailed, called with the cursor p after the tag byte
decodeTagTimingIDetailed(w, p, lim) ==
  LET pBytes == U8(w, p + 8)
      numberOfTimings == pBytes \div 20
      endPos == p + 16 + numberOfTimings * 160
  IN IF p + 16 > lim THEN Failed(p)
     ELSE IF endPos > lim THEN Failed(p + 16)
     ELSE [ok |-> TRUE, pos |-> endPos,
           fields |-> << FU("revision", p, 8, U8(w, p)), FU("payload_bytes", p + 8, 8, pBytes) >>
                      \o TimingsFrom(w, p + 16, 0, numberOfTimings)]

\* one data_block struct read from bit p
DataBlock(w, p, lim) ==
  LET tag == U8(w, p)
      pBytes == U8(w, p + 16)
      t == decodeTagTimingIDetailed(w, p + 8, lim)
  IN IF tag = 3
     THEN (IF t.ok THEN [ok |-> TRUE, pos |-> t.pos, fields |-> << FU("tag", p, 8, tag) >> \o t.fields]
           ELSE Failed(t.pos))
     ELSE IF p + 24 > lim THEN Failed(p + 8)
     ELSE IF p + 24 + pBytes * 8 > lim THEN Failed(p + 24)
     ELSE [ok |-> TRUE, pos |-> p + 24 + pBytes * 8,
           fields |-> << FU("tag", p, 8, tag),
                         FU("block_header", p + 8, 5, UBits(w, p + 8, 5)),
                         FU("revision", p + 13, 3, UBits(w, p + 13, 3)),
                         FU("payload_bytes", p + 16, 8, pBytes),
                         FU("payload", p + 24, pBytes * 8, -1) >>]

\* mutant: a zero tag always ends the list, also at the start of the list
DataBlockStep_zeroAlwaysEnds(w, p, dataStart, byteCount, lim) ==
  IF ~(p < (5 + byteCount) * 8) THEN [status |-> "exit", pos |-> p, block |-> << >>]
  ELSE IF p + 8 > lim THEN [status |-> "fatal", pos |-> p, block |-> << >>]
  ELSE IF U8(w, p) = 0 THEN [status |-> "break", pos |-> p, block |-> << >>]
  ELSE LET r == DataBlock(w, p, lim)
       IN IF r.ok THEN [status |-> "block", pos |-> r.pos, block |-> r.fields]
          ELSE [status |-> "fatal", pos |-> r.pos, block |-> << >>]

\* one evaluation of the loop of decodeDisplayID: the loop condition, the
\* peek of the tag, and either the break or one data block
DataBlockStep(w, p, dataStart, byteCount, lim) ==
  IF ~(p < (5 + byteCount) * 8) THEN [status |-> "exit", pos |-> p, block |-> << >>]
  ELSE IF p + 8 > lim THEN [status |-> "fatal", pos |-> p, block |-> << >>]
  ELSE IF U8(w, p) = 0 /\ dataStart # p THEN [status |-> "break", pos |-> p, block |-> << >>]
  ELSE LET r == DataBlock(w, p, lim)
       IN IF r.ok THEN [status |-> "block", pos |-> r.pos, block |-> r.fields]
          ELSE [status |-> "fatal", pos |-> r.pos, block |-> << >>]

\* the whole loop: the data blocks and the cursor when the loop is left
RECURSIVE DataBlocks(_, _, _, _, _, _)
DataBlocks(w, p, dataStart, byteCount, lim, blocks) ==
  LET st == DataBlockStep(w, p, dataStart, byteCount, lim)
  IN IF st.status = "block"
     THEN DataBlocks(w, st.pos, dataStart, byteCount, lim, Append(blocks, st.block))
     ELSE [ok |-> st.status # "fatal", pos |-> st.pos, blocks |-> blocks]

\* the fields before the data blocks (cursor p after the extension tag)
DisplayIDHeader(w, p) ==
  LET id == U8(w, p + 16)
      extc == U8(w, p + 24)
  IN << FU("display_id_version", p, 4, UBits(w, p, 4)),
        FU("display_id_revision", p + 4, 4, UBits(w, p + 4, 4)),
        FU("bytes_of_data", p + 8, 8, U8(w, p + 8)),
        FU("display_product_type_identifier", p + 16, 8, id),
        FU("extension_count", p + 24, 8, extc) >>
     \o (IF id = 0 /\ extc = 0 THEN << FSym("is_an_extension", p + 32, 0, -1, "true") >> ELSE << >>)

\* what follows the loop: the padding up to the last byte of the frame and
\* the checksum of the section
DisplayIDTrailer(w, p, byteCount, lim) ==
  LET bitsLeft == lim - p
      q == IF bitsLeft - 8 > 0 THEN p + (bitsLeft - 8) ELSE p
  IN IF 8 + (4 + byteCount) * 8 > lim THEN Failed(q)
     ELSE IF q + 8 > lim THEN Failed(q)
     ELSE [ok |-> TRUE, pos |-> q + 8,
           fields |-> (IF bitsLeft - 8 > 0 THEN << FU("padding", p, bitsLeft - 8, -1) >> ELSE << >>)
                      \o << ChecksumField(w, q, CalcSum(BytesRange(w, 8, 4 + byteCount))) >>]

\* decodeDisplayID given its data-block loop l and what follows it, t
DisplayIDValue(w, p, l, t) ==
  IF ~t.ok THEN Failed(t.pos)
  ELSE [ok |-> TRUE, pos |-> t.pos, blocks |-> l.blocks,
        fields |-> DisplayIDHeader(w, p) \o t.fields]

\* decodeDisplayID after its data-block loop l
DisplayIDAfterBlocks(w, p, byteCount, lim, l) ==
  IF ~l.ok THEN Failed(l.pos)
  ELSE DisplayIDValue(w, p, l, DisplayIDTrailer(w, l.pos, byteCount, lim))

decodeDisplayID(w, p, lim) ==
  LET byteCount == U8(w, p + 8)
      dataStart == p + 32
  IN DisplayIDAfterBlocks(w, p, byteCount, lim,
                          DataBlocks(w, dataStart, dataStart, byteCount, lim, << >>))

DisplayIDFrameBits == 126 * 8

\* decodeDisplayIDExtension given the decode r of its framed data struct
DisplayIDExtensionValue(w, lim, r) ==
  IF ~r.ok THEN Failed(r.pos)
  ELSE [ok |-> TRUE, pos |-> lim + 8, blocks |-> r.blocks,
        fields |-> << FU("tag", 0, 8, U8(w, 0)) >> \o r.fields
                   \o << ChecksumField(w, lim, CalcSum(BytesRange(w, 0, 127))) >>]

decodeDisplayIDExtension(w) ==
  IF U8(w, 0) # 112 THEN Failed(0)
  ELSE DisplayIDExtensionValue(w, 8 + DisplayIDFrameBits,
                               decodeDisplayID(w, 8, 8 + DisplayIDFrameBits))

(***************************************************************************)
(* d.TryFieldFormat on the extension group: the registered sub-decoders    *)
(* are tried in turn on the window; a fatal failure of one lets the next   *)
(* one try, and when all have failed there is no value.                    *)
(***************************************************************************)
\* the value of the first format that decodes, given the decodes cea and did
FirstDecoded(cea, did) ==
  IF cea.ok
  THEN [ok |-> TRUE, format |-> "edid_ext_cea861", len |-> cea.pos,
        fields |-> cea.fields, blocks |-> << >>]
  ELSE IF did.ok
  THEN [ok |-> TRUE, format |-> "edid_ext_displayid", len |-> did.pos,
        fields |-> did.fields, blocks |-> did.blocks]
  ELSE [ok |-> FALSE, format |-> "", len |-> 0, fields |-> << >>, blocks |-> << >>]

TryFieldFormat(w) == FirstDecoded(decodeCEAExtension(w), decodeDisplayIDExtension(w))

\* mutant: the failure of a sub-decoder is not recovered
ExtensionEntry_abort(b, p, dv) ==
  IF p + WindowBits > Len(b) * 8 \/ ~dv.ok THEN [ok |-> FALSE]
  ELSE [ok |-> TRUE, name |-> "extension", format |-> dv.format,
        first |-> p, len |-> dv.len, fields |-> dv.fields, blocks |-> dv.blocks]

\* one iteration of the extension loop of decodeEDID, with the cursor at bit
\* p: the frame of 128 bytes, the dispatch and the opaque fallback
\* dv is the value of d.TryFieldFormat on the window
ExtensionEntry(b, p, dv) ==
  IF p + WindowBits > Len(b) * 8 THEN [ok |-> FALSE]
  ELSE IF dv.ok
  THEN [ok |-> TRUE, name |-> "extension", format |-> dv.format,
        first |-> p, len |-> dv.len, fields |-> dv.fields, blocks |-> dv.blocks]
  ELSE [ok |-> TRUE, name |-> "unknown_extension", format |-> "",
        first |-> p, len |-> WindowBits, fields |-> << >>, blocks |-> << >>]

\* the 128 bytes a sub-decoder is given: the rest of the frame at bit p
Window(b, p) == SubSeq(b, (p \div 8) + 1, (p \div 8) + RecordBytes)

\* the iteration of the extension loop with the cursor at bit p
ExtensionAt(b, p) == ExtensionEntry(b, p, TryFieldFormat(Window(b, p)))

\* the extension array after one more iteration, or the failure
ExtensionStep(r) ==
  IF r.ok
  THEN /\ exts' = Append(exts, r)
       /\ pos' = pos + WindowBits
       /\ iter' = iter + 1
       /\ pc' = IF iter + 1 < ext THEN "extensions" ELSE "done"
  ELSE /\ pc' = "failed"
       /\ UNCHANGED <<exts, pos, iter>>

(***************************************************************************)
(* The end of the base record in decodeEDID: extension_count, then the     *)
(* checksum validated against CalcSum of bytes 0..126 of the buffer.       *)
(***************************************************************************)
\* mutant: a checksum mismatch is asserted, hence fatal
decodeTrailer_assert(b, p) ==
  LET sum == CalcSum(BytesRange(b, 0, 127))
  IN [ok |-> U8(b, p + 8) = NegSum(sum), pos |-> p + 16, ext |-> U8(b, p),
      fields |-> << FU("extension_count", p, 8, U8(b, p)), ChecksumField(b, p + 8, sum) >>]

decodeTrailer(b, p) ==
  LET sum == CalcSum(BytesRange(b, 0, 127))
  IN [ok |-> p + 16 <= Len(b) * 8, pos |-> p + 16, ext |-> U8(b, p),
      fields |-> << FU("extension_count", p, 8, U8(b, p)), ChecksumField(b, p + 8, sum) >>]

(***************************************************************************)
(* Input buffers.  A buffer is a base record followed by extension         *)
(* windows; the bytes that select a variant are drawn from small sets and  *)
(* the rest is fixed.                                                      *)
(***************************************************************************)
Zeros(n) == [i \in 1..n |-> 0]

\* a 1920x1080 detailed timing descriptor
SampleDTD == <<2, 58, 128, 24, 113, 56, 45, 64, 88, 44, 69, 0, 9, 37, 33, 0, 0, 30>>

DescKinds == {"dtd", "name", "range", "range_bad", "dummy", "bad_id"}

DescriptorBytes(kind) ==
  CASE kind = "dtd" -> SampleDTD
    [] kind = "name" -> <<0, 0, 0, 252, 0, 68, 69, 76, 76, 10, 32, 32, 32, 32, 32, 32, 32, 32>>
    [] kind = "range" -> <<0, 0, 0, 253, 0, 50, 75, 30, 83, 17, 0>> \o RangePadding
    [] kind = "range_bad" -> <<0, 0, 0, 253, 0, 50, 75, 30, 83, 17, 0, 10, 32, 32, 32, 32, 32, 0>>
    [] kind = "dummy" -> <<0, 0, 0, 16, 0>> \o Zeros(13)
    [] kind = "bad_id" -> <<0, 0, 1, 16, 0>> \o Zeros(13)

\* the descriptor kinds of the four slots of layout number k
DescLayouts ==
  << <<"dtd", "name", "range", "dummy">>,
     <<"name", "range", "dummy", "dtd">>,
     <<"range", "dummy", "dtd", "name">>,
     <<"dummy", "dtd", "name", "range">>,
     <<"dtd", "range_bad", "dtd", "dtd">>,
     <<"dtd", "dtd", "bad_id", "dtd">> >>

\* the first 126 bytes of a base record
BaseBody(magicOK, digital, layout, stdBytes) ==
  (IF magicOK THEN Magic ELSE <<0, 255, 255, 255, 255, 255, 255, 1>>)
  \o <<16, 172, 52, 18, 1, 2, 3, 4>>
  \o (IF digital THEN <<255, 30, 1, 4>> ELSE <<20, 18, 1, 3>>)
  \o (IF digital THEN <<165, 61, 90, 120, 58>> ELSE <<14, 0, 0, 120, 234>>)
  \o <<238, 145, 163, 84, 76, 153, 38, 15, 80, 84>>
  \o <<33, 8, 128>>
  \o stdBytes
  \o DescriptorBytes(DescLayouts[layout][1]) \o DescriptorBytes(DescLayouts[layout][2])
  \o DescriptorBytes(DescLayouts[layout][3]) \o DescriptorBytes(DescLayouts[layout][4])

DefaultStd == <<97, 63, 129, 192, 1, 1, 1, 1, 1, 1, 1, 1, 1, 1, 1, 1>>

\* a 127-byte record body completed by its checksum byte, correct or not
WithChecksum(body, good) ==
  Append(body, (NegSum(CalcSum(body)) + (IF good THEN 0 ELSE 1)) % 256)

ExtKinds == {"cea4", "cea40", "cea3", "cea92", "cea_bad_id", "did", "did_long", "unknown"}

\* a DisplayID section: version, bytes_of_data, product type, extension count
\* and the data blocks, padded with zeros to the 126 bytes of its frame
DisplayIDBody(byteCount, blocks) ==
  <<112, 18, byteCount, 0, 0>> \o blocks \o Zeros(122 - Len(blocks))

\* the first 127 bytes of an extension window
ExtBody(kind) ==
  CASE kind = "cea4" -> <<2, 3, 4, 0>> \o SampleDTD \o DescriptorBytes("name") \o Zeros(87)
    [] kind = "cea40" -> <<2, 3, 40, 0>> \o Zeros(36) \o DescriptorBytes("range") \o SampleDTD \o Zeros(51)
    [] kind = "cea3" -> <<2, 3, 3, 0>> \o SampleDTD \o SampleDTD \o Zeros(87)
    [] kind = "cea92" -> <<2, 3, 92, 0>> \o Zeros(87) \o SampleDTD \o SampleDTD
    [] kind = "cea_bad_id" -> <<2, 3, 4, 0>> \o SampleDTD \o DescriptorBytes("bad_id") \o Zeros(87)
    [] kind = "did" -> DisplayIDBody(30, <<3, 0, 20>> \o SampleDTD \o <<7, 7>> \o <<1, 0, 2, 9, 9>>)
    [] kind = "did_long" -> DisplayIDBody(121, <<2, 0, 130>> \o Zeros(119))
    [] kind = "unknown" -> <<16, 1, 2, 3>> \o Zeros(123)

\* the windows of kinds[1..n], window k having a wrong checksum iff k = badWin
RECURSIVE ExtWindows(_, _, _)
ExtWindows(kinds, k, badWin) ==
  IF k > Len(kinds) THEN << >>
  ELSE WithChecksum(ExtBody(kinds[k]), k # badWin) \o ExtWindows(kinds, k + 1, badWin)

\* bad = 0: every checksum is right; bad = 1: the base record's is wrong;
\* bad = k + 1: that of extension window k is wrong
Buffer(magicOK, digital, layout, stdBytes, extByte, kinds, bad) ==
  WithChecksum(Append(BaseBody(magicOK, digital, layout, stdBytes), extByte), bad # 1)
  \o ExtWindows(kinds, 1, bad - 1)

WindowKinds(n) == [1..n -> ExtKinds]

(***************************************************************************)
(* decodeEDID as a state machine: one action per section of the base       *)
(* record and one per iteration of the extension loop.  A fatal error      *)
(* ends the pass in "failed".                                              *)
(***************************************************************************)
\* Two families of buffers: every variant of the base record, alone or
\* followed by one CEA-861 window; and one base record followed by up to
\* MaxExt windows of every kind, the last of them possibly missing.
Init ==
  /\ \/ \E magicOK \in BOOLEAN, digital \in BOOLEAN, layout \in 1..Len(DescLayouts),
           extByte \in 0..1, bad \in 0..1 :
          buf = Buffer(magicOK, digital, layout, DefaultStd, extByte,
                       IF extByte = 1 THEN <<"cea4">> ELSE << >>, bad)
     \/ \E extByte \in 1..MaxExt :
          \E n \in {extByte, extByte - 1} :
            \E kinds \in WindowKinds(n), bad \in 0..(n + 1) :
               buf = Buffer(TRUE, TRUE, 1, DefaultStd, extByte, kinds, bad)
  /\ pc = "header"
  /\ pos = 0
  /\ ec = NoEc
  /\ tree = << >>
  /\ ext = 0 /\ exts = << >> /\ iter = 0
  /\ arg = 0 /\ ret = ""

Emit(name, value) == tree @@ (name :> value)

DecodeFileHeader ==
  /\ pc = "header"
  /\ LET r == decodeFileHeader(buf, pos)
     IN IF r.ok
        THEN /\ tree' = Emit("header", r.fields)
             /\ ec' = [ec EXCEPT !.revision = r.revision]
             /\ pos' = pos + 20 * 8
             /\ pc' = "basic"
        ELSE /\ pc' = "failed"
             /\ UNCHANGED <<tree, ec, pos>>
  /\ UNCHANGED <<buf, ext, exts, iter, arg, ret>>

DecodeBasicDisplayParameters ==
  /\ pc = "basic"
  /\ \E aspect \in AspectRatioField(U8(buf, pos + 8), U8(buf, pos + 16)) :
       LET r == decodeBasicDisplayParameters(buf, pos, ec.revision, aspect)
       IN /\ tree' = Emit("basic_display_parameters", r.fields)
          /\ ec' = [ec EXCEPT !.contFreq = r.contFreq]
  /\ pos' = pos + 5 * 8
  /\ pc' = "chroma"
  /\ UNCHANGED <<buf, ext, exts, iter, arg, ret>>

DecodeChromaticityCoordinates ==
  /\ pc = "chroma"
  /\ tree' = Emit("chromaticity_coordinates", decodeChromaticityCoordinates(buf, pos).fields)
  /\ pos' = pos + 10 * 8
  /\ pc' = "established"
  /\ UNCHANGED <<buf, ec, ext, exts, iter, arg, ret>>

DecodeEstablishedTimings ==
  /\ pc = "established"
  /\ tree' = Emit("established_timings", decodeEstablishedTimings(buf, pos).fields)
  /\ pos' = pos + 3 * 8
  /\ pc' = "standard"
  /\ UNCHANGED <<buf, ec, ext, exts, iter, arg, ret>>

DecodeStandardTimings ==
  /\ pc = "standard"
  /\ tree' = Emit("standard_timings", decodeStandardTimings(buf, pos).fields)
  /\ pos' = pos + 16 * 8
  /\ pc' = "detailed"
  /\ iter' = 1
  /\ UNCHANGED <<buf, ec, ext, exts, arg, ret>>

\* one of the four DetailedDescriptor calls of the detailed_timings struct
DecodeDetailedDescriptor ==
  /\ pc = "detailed"
  /\ LET r == DetailedDescriptor(buf, pos, Len(buf) * 8,
                                 IF iter = 1 THEN "preferred_timing_mode"
                                 ELSE "detailed_timing_descriptor", iter)
     IN IF r.ok
        THEN /\ tree' = Emit("detailed_timings",
                             (IF iter = 1 THEN << >> ELSE tree["detailed_timings"])
                               \o << [name |-> r.name, fields |-> r.fields] >>)
             /\ pos' = r.pos
             /\ iter' = IF iter = 4 THEN 0 ELSE iter + 1
             /\ pc' = IF iter = 4 THEN "trailer" ELSE "detailed"
        ELSE /\ pc' = "failed"
             /\ UNCHANGED <<tree, pos, iter>>
  /\ UNCHANGED <<buf, ec, ext, exts, arg, ret>>

DecodeTrailer ==
  /\ pc = "trailer"
  /\ LET r == decodeTrailer(buf, pos)
     IN IF r.ok
        THEN /\ tree' = Emit("extension_count", r.fields[1]) @@ ("checksum" :> r.fields[2])
             /\ ext' = r.ext
             /\ pos' = r.pos
             /\ pc' = IF r.ext > 0 THEN "extensions" ELSE "done"
        ELSE /\ pc' = "failed"
             /\ UNCHANGED <<tree, ext, pos>>
  /\ UNCHANGED <<buf, ec, exts, iter, arg, ret>>

\* one iteration of "for range ext"
DecodeExtension ==
  /\ pc = "extensions"
  /\ iter < ext
  /\ ExtensionStep(ExtensionAt(buf, pos))
  /\ UNCHANGED <<buf, ec, tree, ext, arg, ret>>

Next ==
  \/ DecodeFileHeader
  \/ DecodeBasicDisplayParameters
  \/ DecodeChromaticityCoordinates
  \/ DecodeEstablishedTimings
  \/ DecodeStandardTimings
  \/ DecodeDetailedDescriptor
  \/ DecodeTrailer
  \/ DecodeExtension

Spec == Init /\ [][Next]_vars

(***************************************************************************)
(* Claims about decodeEDID (checked under Spec).                           *)
(***************************************************************************)
\* the plain sum of bytes lo..hi (byte offsets) of the buffer
RECURSIVE PlainSum(_, _, _)
PlainSum(b, lo, hi) ==
  IF lo > hi THEN 0
  ELSE IF lo = hi THEN ByteAt(b, lo)
  ELSE PlainSum(b, lo, (lo + hi) \div 2) + PlainSum(b, ((lo + hi) \div 2) + 1, hi)

\* (0 - S) mod 256 for the record that starts at byte offset base
ExpectedChecksum(b, base) == (256 * RecordBytes - PlainSum(b, base, base + 126)) % 256

ChecksumRight(b, base) == ByteAt(b, base + 127) = ExpectedChecksum(b, base)

Emitted(name) == name \in DOMAIN tree

LastField(e) == e.fields[Len(e.fields)]

\* C1: the checksum field of the base record, and of every extension decoded
\* by a registered sub-decoder, is described as valid if and only if byte 127
\* of the record's window equals (0 - S) mod 256, S being the sum of the
\* window's bytes 0..126.
TheoremC1_ChecksumValidIff ==
  /\ Emitted("checksum") =>
       (tree["checksum"].desc = "valid" <=> ChecksumRight(buf, 0))
  /\ \A k \in 1..Len(exts) :
       exts[k].name = "extension" =>
         /\ LastField(exts[k]).name = "checksum"
         /\ LastField(exts[k]).desc \in {"valid", "invalid"}
         /\ LastField(exts[k]).desc = "valid" <=> ChecksumRight(buf, k * RecordBytes)

\* C1 witness: a pass that has reported a wrong base checksum and a right
\* extension checksum, and one that has reported a wrong extension checksum
WitnessC1_BothOutcomes ==
  /\ pc = "done"
  /\ Len(exts) = 2
  /\ exts[1].name = "extension" /\ LastField(exts[1]).desc = "valid"
  /\ exts[2].name = "extension" /\ LastField(exts[2]).desc = "invalid"
  /\ tree["checksum"].desc = "valid"

\* C2 (as stated): an extension window whose first byte matches no registered
\* sub-decoder is consumed as an opaque block of exactly 128 bytes and a
\* checksum result is reported for that window.
ClaimC2_UnknownHasChecksum ==
  \A k \in 1..Len(exts) :
    ByteAt(buf, k * RecordBytes) \notin {2, 112} =>
      /\ exts[k].name = "unknown_extension"
      /\ exts[k].first = k * WindowBits /\ exts[k].len = WindowBits
      /\ \E i \in 1..Len(exts[k].fields) : exts[k].fields[i].name = "checksum"

\* C3: a checksum mismatch in the base record does not stop the pass: the
\* pass never fails at the checksum, and when it is done the extension count
\* is the byte at offset 126 and the extensions are the entries that the same
\* buffer with a corrected checksum byte gives.
BaseChecksumFixed == [buf EXCEPT ![RecordBytes] = ExpectedChecksum(buf, 0)]

TheoremC3_MismatchNotFatal ==
  ~ChecksumRight(buf, 0) =>
     /\ pc = "failed" => pos # 126 * 8
     /\ pc \in {"extensions", "done"} =>
          /\ Emitted("checksum") /\ tree["checksum"].desc = "invalid"
          /\ ext = ByteAt(buf, 126)
     /\ pc = "done" =>
          /\ Len(exts) = ext
          /\ \A k \in 1..Len(exts) : exts[k] = ExtensionAt(BaseChecksumFixed, k * WindowBits)

\* C3 witness: a finished pass over a base record with a wrong checksum and
\* one decoded extension
WitnessC3_ExtensionsAfterMismatch ==
  /\ pc = "done" /\ ~ChecksumRight(buf, 0)
  /\ ext = 1 /\ Len(exts) = 1 /\ exts[1].name = "extension"

\* C4: when the first 8 bytes are not 00 FF FF FF FF FF FF 00 the pass aborts
\* at the identifier: nothing after it is emitted, neither a field of the
\* base record nor an extension.
MagicMatches == \A i \in 1..8 : buf[i] = IF i \in {1, 8} THEN 0 ELSE 255

TheoremC4_MagicIsFatal ==
  ~MagicMatches =>
     /\ pc \in {"header", "failed"}
     /\ DOMAIN tree = {}
     /\ exts = << >>
     /\ pos = 0

\* C4 witness: the pass has failed on a buffer with a wrong identifier
WitnessC4_Aborted == pc = "failed" /\ ~MagicMatches /\ buf[8] = 1

\* C5: once the base record is decoded, with extension_count N and a buffer
\* of at least 128*(N+1) bytes, the pass does not fail and ends with exactly
\* N entries, the i-th covering bits [1024*i, 1024*(i+1)); a window whose
\* sub-decoder fails (CEA-861 with an offset below 4 or above 91, or with a
\* descriptor whose third byte is not zero; DisplayID with a block that
\* passes the end) is an opaque block, and every entry is the one its own
\* window gives, whatever happened before it.
SubDecoderFails(k) ==
  LET base == k * RecordBytes
      tag == ByteAt(buf, base)
      \* byte 2 is the offset of CEA-861 and bytes_of_data of DisplayID
      offset == ByteAt(buf, base + 2)
  IN \/ tag = 2 /\ (offset < 4 \/ offset > 91)
     \/ tag = 2 /\ offset = 4 /\ ByteAt(buf, base + 22) = 0 /\ ByteAt(buf, base + 23) = 0
          /\ ByteAt(buf, base + 24) # 0
     \/ tag = 112 /\ offset > 0 /\ ByteAt(buf, base + 5) # 3
          /\ 5 + 3 + ByteAt(buf, base + 7) > 127

TheoremC5_ExtensionWindows ==
  (Emitted("extension_count") /\ Len(buf) >= RecordBytes * (ByteAt(buf, 126) + 1)) =>
     /\ pc # "failed"
     /\ Len(exts) <= ByteAt(buf, 126)
     /\ pc = "done" => Len(exts) = ByteAt(buf, 126)
     /\ \A k \in 1..Len(exts) :
          /\ exts[k].first = k * WindowBits
          /\ exts[k].len = WindowBits
          /\ SubDecoderFails(k) => exts[k].name = "unknown_extension"
          /\ exts[k] = ExtensionAt(SubSeq(buf, 1, RecordBytes)
                                        \o Zeros((k - 1) * RecordBytes)
                                        \o SubSeq(buf, k * RecordBytes + 1, (k + 1) * RecordBytes),
                                      k * WindowBits)

\* C5 witness: a finished pass whose first window failed in the CEA-861
\* sub-decoder and whose second window is decoded
WitnessC5_FailureContained ==
  /\ pc = "done" /\ Len(exts) = 2
  /\ SubDecoderFails(1) /\ exts[1].name = "unknown_extension"
  /\ exts[2].name = "extension"

\* C8: whatever variants are taken, a decoded base record has its four
\* descriptor slots at bytes 54, 72, 90 and 108, extension_count read from
\* byte 126 and checksum from byte 127; a decoded CEA-861 or DisplayID
\* extension has its record checksum read from byte 127 of its window.
TheoremC8_FixedLayout ==
  /\ Emitted("detailed_timings") =>
       \A k \in 1..Len(tree["detailed_timings"]) :
          tree["detailed_timings"][k].fields[1].first = (54 + 18 * (k - 1)) * 8
  /\ Emitted("extension_count") =>
       /\ tree["extension_count"].first = 126 * 8
       /\ tree["extension_count"].val = ByteAt(buf, 126)
       /\ Emitted("checksum")
       /\ tree["checksum"].first = 127 * 8
       /\ tree["checksum"].val = ByteAt(buf, 127)
  /\ \A k \in 1..Len(exts) :
       exts[k].name = "extension" =>
         /\ LastField(exts[k]).name = "checksum"
         /\ LastField(exts[k]).first = 127 * 8
         /\ LastField(exts[k]).val = ByteAt(buf, k * RecordBytes + 127)

\* C8 witness: a finished pass over an analog base record with a display
\* descriptor in its first slot and a CEA-861 extension
WitnessC8_Variants ==
  /\ pc = "done"
  /\ tree["basic_display_parameters"][1].sym = "analog"
  /\ tree["detailed_timings"][1].name = "display_descriptor_0"
  /\ Len(exts) = 1 /\ exts[1].format = "edid_ext_cea861"

(***************************************************************************)
(* Specification of the standard timings: the sixteen bytes 38..53 of a    *)
(* base record are drawn from small sets and decodeStandardTimings is      *)
(* applied with the cursor where decodeEDID has it.                        *)
(***************************************************************************)
StdValues == {0, 1, 17, 63, 97, 129, 192, 255}

\* eight slots, slot k holding (b1, b2) and the others the pair fill
StdBytes(k, b1, b2, fill) ==
  [i \in 1..16 |-> IF i = 2 * k - 1 THEN b1
                   ELSE IF i = 2 * k THEN b2
                   ELSE fill[2 - (i % 2)]]

InitStd ==
  /\ \E k \in 1..8, b1 \in StdValues, b2 \in StdValues, fill \in {<<1, 1>>, <<97, 63>>} :
       buf = WithChecksum(Append(BaseBody(TRUE, TRUE, 1, StdBytes(k, b1, b2, fill)), 0), TRUE)
  /\ pc = "standard"
  /\ pos = 38 * 8
  /\ ec = NoEc
  /\ tree = << >>
  /\ ext = 0 /\ exts = << >> /\ iter = 0
  /\ arg = 0 /\ ret = ""

NextStd == DecodeStandardTimings

SpecStd == InitStd /\ [][NextStd]_vars

\* what the claim expects of slots k..8: nothing for (1, 1), else the raw
\* values and symbols of the three fields
RECURSIVE ExpectedTimings(_)
ExpectedTimings(k) ==
  IF k > 8 THEN << >>
  ELSE LET byte1 == ByteAt(buf, 38 + 2 * (k - 1))
           byte2 == ByteAt(buf, 39 + 2 * (k - 1))
       IN (IF byte1 = 1 /\ byte2 = 1 THEN << >>
           ELSE << [h |-> byte1, hsym |-> (byte1 + 31) * 8, aspect |-> byte2 \div 64,
                    refresh |-> byte2 % 64, rsym |-> (byte2 % 64) + 60] >>)
          \o ExpectedTimings(k + 1)

EmittedTimings ==
  [i \in 1..Len(tree["standard_timings"]) |->
     LET t == tree["standard_timings"][i]
     IN [h |-> t[1].val, hsym |-> t[1].num, aspect |-> t[2].val,
         refresh |-> t[3].val, rsym |-> t[3].num]]

\* C6 (as stated): the eight standard-timing slots give, in buffer order, no
\* timing for (0x01, 0x01) and otherwise one timing with horizontal raw value
\* byte1 and symbol (byte1+31)*8, aspect bits 7..6 of byte2, refresh raw value
\* byte2 & 0x3F and symbol that plus 60; slot (0x61, 0x3F) gives 1176 pixels.
ClaimC6_StandardTimings ==
  Emitted("standard_timings") => EmittedTimings = ExpectedTimings(1)

(***************************************************************************)
(* Specification of the DisplayID section: decodeDisplayIDExtension on one *)
(* 128-byte window, one action for the header, one per evaluation of the   *)
(* data-block loop and one for what follows the loop.  arg holds the       *)
(* locals byteCount and dataStart.                                         *)
(***************************************************************************)
\* number of data blocks laid out in a window
MaxBlocks == 3

BlockChoices ==
  { <<0, 0, 0>>, <<0, 0, 2, 5, 6>>, <<1, 0, 1, 9>>, <<3, 0, 0>>,
    <<3, 0, 5, 1, 2, 3, 4, 5>>, <<3, 0, 20>> \o SampleDTD \o <<7, 7>>, <<2, 0, 200>> }

RECURSIVE Flatten(_)
Flatten(ss) == IF ss = << >> THEN << >> ELSE Head(ss) \o Flatten(Tail(ss))

ByteCounts == {0, 4, 8, 40, 121, 130}

InitDisplayID ==
  /\ \E n \in 0..MaxBlocks, tagByte \in {112, 16} :
       \E ss \in [1..n -> BlockChoices], byteCount \in ByteCounts :
          buf = WithChecksum(<<tagByte, 18, byteCount, 0, 0>> \o Flatten(ss)
                               \o Zeros(122 - Len(Flatten(ss))), TRUE)
  /\ pc = "did_header"
  /\ pos = 0
  /\ ec = NoEc
  /\ tree = << >>
  /\ ext = 0 /\ exts = << >> /\ iter = 0
  /\ arg = [byteCount |-> 0, dataStart |-> 0] /\ ret = ""

DisplayIDLim == 8 + DisplayIDFrameBits

\* decodeDisplayIDExtension up to the data-block loop of decodeDisplayID
DisplayIDBegin ==
  /\ pc = "did_header"
  /\ IF U8(buf, 0) = 112
     THEN /\ tree' = Emit("header", << FU("tag", 0, 8, U8(buf, 0)) >> \o DisplayIDHeader(buf, 8))
                       @@ ("data_blocks" :> << >>)
          /\ arg' = [byteCount |-> U8(buf, 16), dataStart |-> 40]
          /\ pos' = 40
          /\ pc' = "did_loop"
     ELSE /\ pc' = "failed"
          /\ UNCHANGED <<tree, arg, pos>>
  /\ UNCHANGED <<buf, ec, ext, exts, iter, ret>>

\* one evaluation of the loop: leave it, or decode one data block
DisplayIDLoop ==
  /\ pc = "did_loop"
  /\ LET st == DataBlockStep(buf, pos, arg.dataStart, arg.byteCount, DisplayIDLim)
     IN /\ pos' = st.pos
        /\ tree' = IF st.status = "block"
                   THEN [tree EXCEPT !["data_blocks"] = Append(@, st.block)]
                   ELSE tree
        /\ pc' = CASE st.status = "block" -> "did_loop"
                   [] st.status = "fatal" -> "failed"
                   [] OTHER -> "did_trailer"
  /\ UNCHANGED <<buf, ec, ext, exts, iter, arg, ret>>

\* the padding and checksum of the section, then the checksum of the record
DisplayIDEnd ==
  /\ pc = "did_trailer"
  /\ LET t == DisplayIDTrailer(buf, pos, arg.byteCount, DisplayIDLim)
     IN IF t.ok
        THEN /\ tree' = Emit("trailer", t.fields)
                          @@ ("checksum" :> ChecksumField(buf, DisplayIDLim,
                                                          CalcSum(BytesRange(buf, 0, 127))))
             /\ pos' = DisplayIDLim + 8
             /\ pc' = "did_done"
        ELSE /\ pc' = "failed"
             /\ UNCHANGED <<tree, pos>>
  /\ UNCHANGED <<buf, ec, ext, exts, iter, arg, ret>>

NextDisplayID ==
  \/ DisplayIDBegin
  \/ DisplayIDLoop
  \/ DisplayIDEnd

SpecDisplayID == InitDisplayID /\ [][NextDisplayID]_vars

\* the loop is about to peek a zero tag
ZeroTagMet ==
  /\ pc = "did_loop"
  /\ pos < (5 + arg.byteCount) * 8
  /\ pos + 8 <= DisplayIDLim
  /\ ByteAt(buf, pos \div 8) = 0

\* C7: a zero tag met when no block has been decoded yet is decoded as a data
\* block (or the decode fails on its payload); a zero tag met after at least
\* one block ends the list, and the cursor stays on the zero byte.
TheoremC7_ZeroTag ==
  [][ZeroTagMet =>
       IF Len(tree["data_blocks"]) = 0
       THEN \/ pc' = "failed"
            \/ /\ pc' = "did_loop"
               /\ Len(tree'["data_blocks"]) = 1
               /\ tree'["data_blocks"][1][1] = FU("tag", pos, 8, 0)
               /\ pos' = pos + (3 + ByteAt(buf, (pos \div 8) + 2)) * 8
       ELSE /\ pc' = "did_trailer"
            /\ pos' = pos
            /\ tree'["data_blocks"] = tree["data_blocks"]]_vars

\* C7 witness: the list has ended on a zero byte after two blocks, the first
\* of which had a zero tag
WitnessC7_ZeroFirstThenEnd ==
  /\ pc = "did_trailer"
  /\ Len(tree["data_blocks"]) = 2
  /\ tree["data_blocks"][1][1].val = 0
  /\ pos < (5 + arg.byteCount) * 8
  /\ ByteAt(buf, pos \div 8) = 0

\* the loop has just decoded one more data block
BlockDecoded ==
  /\ pc = "did_loop"
  /\ pc' = "did_loop"
  /\ Len(tree'["data_blocks"]) = Len(tree["data_blocks"]) + 1

\* C15 (as stated): every data block, whatever its tag, advances the cursor
\* by 3 + payload_bytes bytes, payload_bytes being the third byte of the block.
ClaimC15_BlockAdvance ==
  [][BlockDecoded => pos' = pos + (3 + ByteAt(buf, (pos \div 8) + 2)) * 8]_vars

(***************************************************************************)
(* Specification of the timing layouts: a chromaticity block (10 bytes), a *)
(* detailed timing descriptor (18 bytes) and a DisplayID Type I timing (20 *)
(* bytes) are drawn from small sets and decodeChromaticityCoordinates,     *)
(* DetailedTimingDescriptor and the body of the loop of                    *)
(* decodeTagTimingIDetailed are applied to them in turn.                   *)
(***************************************************************************)
SampleChroma == <<238, 145, 163, 84, 76, 153, 38, 15, 80, 84>>

SampleTimingI == SampleDTD \o <<7, 7>>

\* the bytes s with byte i (counted from 0) set to v
SetByte(s, i, v) == [s EXCEPT ![i + 1] = v]

\* detailed timing descriptors that vary the blanking, the porches, the sync
\* widths, their split high bits and the flag byte (sync descriptor in bits 4..1)
TimingDTDs ==
  { SetByte(SetByte(SetByte(SetByte(SetByte(SetByte(SampleDTD, 3, hblank0), 4, b4), 8, hfp0),
                            10, b10), 11, b11), 17, 2 * sync + other) :
      hblank0 \in {0, 88}, b4 \in {0, 33}, hfp0 \in {0, 200}, b10 \in {0, 18, 255},
      b11 \in {0, 5, 80, 255}, sync \in 0..15, other \in {0, 225} }

TimingChromas ==
  { SetByte(SetByte(SetByte(SetByte(SampleChroma, 0, b0), 1, b1), 2, redX1), 9, whiteY1) :
      b0 \in {0, 27, 64, 255}, b1 \in {0, 228}, redX1 \in {0, 1, 255}, whiteY1 \in {0, 255} }

TimingIs ==
  { SetByte(SetByte(SampleTimingI, 8, hfp1), 9, b9) : hfp1 \in {0, 255}, b9 \in {0, 127, 128, 255} }

ChromaBase == 0

DTDBase == 80

InitTiming ==
  /\ \/ \E dtd \in TimingDTDs : buf = SampleChroma \o dtd \o SampleTimingI
     \/ \E c \in TimingChromas : buf = c \o SampleDTD \o SampleTimingI
     \/ \E t \in TimingIs : buf = SampleChroma \o SampleDTD \o t
  /\ pc = "t_chroma"
  /\ pos = ChromaBase
  /\ ec = NoEc
  /\ tree = << >>
  /\ ext = 0 /\ exts = << >> /\ iter = 0
  /\ arg = 0 /\ ret = ""

TimingChroma ==
  /\ pc = "t_chroma"
  /\ tree' = Emit("chromaticity_coordinates", decodeChromaticityCoordinates(buf, pos).fields)
  /\ pos' = pos + 80
  /\ pc' = "t_dtd"
  /\ UNCHANGED <<buf, ec, ext, exts, iter, arg, ret>>

TimingDTD ==
  /\ pc = "t_dtd"
  /\ tree' = Emit("detailed_timing", DetailedTimingDescriptor(buf, pos).fields)
  /\ pos' = pos + DescriptorBits
  /\ pc' = "t_timing1"
  /\ UNCHANGED <<buf, ec, ext, exts, iter, arg, ret>>

TimingTypeI ==
  /\ pc = "t_timing1"
  /\ tree' = Emit("timing1", TimingIDetailed(buf, pos))
  /\ pos' = pos + 160
  /\ pc' = "t_done"
  /\ UNCHANGED <<buf, ec, ext, exts, iter, arg, ret>>

NextTiming ==
  \/ TimingChroma
  \/ TimingDTD
  \/ TimingTypeI

SpecTiming == InitTiming /\ [][NextTiming]_vars

\* the field called name among the siblings fs
FieldNamed(fs, name) == CHOOSE f \in {fs[i] : i \in DOMAIN fs} : f.name = name

\* low + (high << w) for a low chunk of w bits at bit lo and a high chunk of
\* k bits at bit hi
Reassembled(lo, w, hi, k) == UBits(buf, lo, w) + UBits(buf, hi, k) * Pow2(w)

\* the split fields of the detailed timing descriptor: name, low chunk (bit,
\* width), high chunk (bit, width), relative to the descriptor
DTDSplits ==
  { <<"horizontal_addressable_video", 16, 8, 32, 4>>,
    <<"horizontal_blanking", 24, 8, 36, 4>>,
    <<"vertical_addressable_video", 40, 8, 56, 4>>,
    <<"vertical_blanking", 48, 8, 60, 4>>,
    <<"horizontal_front_porch", 64, 8, 88, 2>>,
    <<"horizontal_sync_pulse_width", 72, 8, 90, 2>>,
    <<"vertical_front_porch", 80, 4, 92, 2>>,
    <<"vertical_sync_pulse_width", 84, 4, 94, 2>>,
    <<"horizontal_addressable_video_image_size", 96, 8, 112, 4>>,
    <<"vertical_addressable_video_image_size", 104, 8, 116, 4>> }

\* C11 (as stated): every split field of the detailed timing descriptor and
\* of the chromaticity block has the raw value low + (high << w), w being the
\* width of the low chunk read.
ClaimC11_SplitFields ==
  /\ Emitted("detailed_timing") =>
       \A sp \in DTDSplits :
          FieldNamed(tree["detailed_timing"], sp[1]).val
            = Reassembled(DTDBase + sp[2], sp[3], DTDBase + sp[4], sp[5])
  /\ Emitted("chromaticity_coordinates") =>
       \A k \in 1..8 :
          tree["chromaticity_coordinates"][k].num
            = Reassembled(ChromaBase + 2 * (k - 1), 2, ChromaBase + 16 + 8 * (k - 1), 8)

\* two fields that share one bit range: the values reassembled from one
\* group of interleaved chunks
SameRange(f, g) == f.first = g.first /\ f.len = g.len

\* two fields that cover a common bit
CommonBit(f, g) == f.first < g.first + g.len /\ g.first < f.first + f.len

\* the siblings fs, in emission order, start at non-decreasing bits and
\* overlap only when they share one range
OrderedDisjoint(fs) ==
  \A i \in DOMAIN fs : \A j \in DOMAIN fs :
     i < j => /\ fs[i].first <= fs[j].first
              /\ CommonBit(fs[i], fs[j]) => SameRange(fs[i], fs[j])

\* C12 (as stated): the fields of a detailed timing descriptor and of a
\* DisplayID Type I timing start at non-decreasing bits in emission order, and
\* two of them that are not parts of one reassembled value cover no common bit.
ClaimC12_SiblingRanges ==
  /\ Emitted("detailed_timing") => OrderedDisjoint(tree["detailed_timing"])
  /\ Emitted("timing1") => OrderedDisjoint(tree["timing1"])

\* the 4-bit sync descriptor: bits 4..1 of the last byte of the descriptor
SyncDescriptor == UBits(buf, DTDBase + 139, 4)

SyncBit(n) == (SyncDescriptor \div Pow2(n)) % 2

\* C13 (as stated): the two high bits of the sync descriptor select the
\* sync_signal symbol; vsync_polarity (digital separate) or with_serrations,
\* and hsync_polarity (digital separate or composite) or sync_on, follow, each
\* with the symbol of its bit: "positive" / "true" / "rgb" when set,
\* "negative" / "false" / "green_only" when clear.
ClaimC13_SyncSymbols ==
  Emitted("detailed_timing") =>
    LET fs == tree["detailed_timing"]
        high == SyncDescriptor \div 4
    IN /\ Len(fs) = 20
       /\ fs[18].name = "sync_signal"
       /\ fs[18].sym = <<"analog_composite", "bipolar_analog_composite",
                         "digital_composite", "digital_separate">>[high + 1]
       /\ fs[19].name = (IF high = 3 THEN "vsync_polarity" ELSE "with_serrations")
       /\ fs[19].sym = (IF high = 3
                        THEN (IF SyncBit(1) = 1 THEN "positive" ELSE "negative")
                        ELSE (IF SyncBit(1) = 1 THEN "true" ELSE "false"))
       /\ fs[20].name = (IF high \in {2, 3} THEN "hsync_polarity" ELSE "sync_on")
       /\ fs[20].sym = (IF high \in {2, 3}
                        THEN (IF SyncBit(0) = 1 THEN "positive" ELSE "negative")
                        ELSE (IF SyncBit(0) = 1 THEN "rgb" ELSE "green_only"))

\* a 64-bit value kept as limbs is the number n below 65536
LimbsAre(limbs, n) == limbs = <<n, 0, 0, 0>>

\* the back porch bp derived from the emitted blanking, front porch fp and
\* sync pulse width spw did not wrap
PorchExact(fs, blanking, fp, spw, bp) ==
  \E n \in 0..FieldNamed(fs, blanking).val :
     /\ LimbsAre(FieldNamed(fs, bp).val, n)
     /\ FieldNamed(fs, fp).val + FieldNamed(fs, spw).val + n = FieldNamed(fs, blanking).val

\* C14 (as stated): the derived back porches satisfy front_porch +
\* sync_pulse_width + back_porch = blanking with back_porch <= blanking, also
\* when front_porch + sync_pulse_width exceeds blanking.
ClaimC14_BackPorch ==
  Emitted("detailed_timing") =>
    /\ PorchExact(tree["detailed_timing"], "horizontal_blanking", "horizontal_front_porch",
                  "horizontal_sync_pulse_width", "horizontal_back_porch")
    /\ PorchExact(tree["detailed_timing"], "vertical_blanking", "vertical_front_porch",
                  "vertical_sync_pulse_width", "vertical_back_porch")

(***************************************************************************)
(* Specification of the aspect ratio: the two screen-size bytes are drawn  *)
(* from all byte values and the field is computed from them.               *)
(***************************************************************************)
InitAspect ==
  /\ arg \in [h : Byte, v : Byte]
  /\ ret = ""
  /\ pc = "aspect"
  /\ buf = << >> /\ pos = 0 /\ ec = NoEc /\ tree = << >>
  /\ ext = 0 /\ exts = << >> /\ iter = 0

AspectCall ==
  /\ pc = "aspect"
  /\ ret' \in AspectRatioField(arg.h, arg.v)
  /\ pc' = "aspect_done"
  /\ UNCHANGED <<buf, pos, ec, tree, ext, exts, iter, arg>>

NextAspect == AspectCall

SpecAspect == InitAspect /\ [][NextAspect]_vars

(***************************************************************************)
(* Claims about the aspect ratio (checked under SpecAspect).               *)
(***************************************************************************)
ArgAspect ==
  IF arg.h = 0 THEN [p |-> 100, q |-> arg.v + 99]
  ELSE IF arg.v = 0 THEN [p |-> arg.h + 99, q |-> 100]
  ELSE [p |-> arg.h, q |-> arg.v]

\* denominators whose rounded numerator is strictly within the tolerance
StrictDen(a) == {n \in 1..MaxDenominator : Dist(a, RoundM(a, n), n) < a.q * n}

\* denominators at a distance of exactly 1/100, where float64 rounding decides
TieDen(a) == {n \in 1..MaxDenominator : Dist(a, RoundM(a, n), n) = a.q * n}

CommonDivisors(m, n) == {d \in 1..n : m % d = 0 /\ n % d = 0}

MaxOf(S) == CHOOSE x \in S : \A y \in S : y <= x

MinOf(S) == CHOOSE x \in S : \A y \in S : x <= y

ReducedPair(m, n) == LET g == MaxOf(CommonDivisors(m, n)) IN <<m \div g, n \div g>>

SubstitutedPair(pr) ==
  IF pr = <<8, 5>> THEN <<16, 10>>
  ELSE IF pr = <<5, 8>> THEN <<10, 16>>
  ELSE IF pr = <<7, 3>> THEN <<21, 9>>
  ELSE IF pr = <<3, 7>> THEN <<9, 21>>
  ELSE pr

\* the string the claim expects from denominator n
RatioString(a, n) ==
  LET pr == SubstitutedPair(ReducedPair(RoundM(a, n), n))
  IN ToString(pr[1]) \o ":" \o ToString(pr[2])

BothZero == arg.h = 0 /\ arg.v = 0

\* C9 (as stated): aspect_ratio is "undefined" iff both screen-size bytes are 0;
\* otherwise it is always the ratio built from the smallest denominator n in
\* 1..20 within the tolerance, reduced and then substituted.  Stated on the
\* inputs where no comparison is an exact tie, so that float64 rounding plays
\* no part.
ClaimC9_AlwaysRatio ==
  (pc = "aspect_done" /\ TieDen(ArgAspect) = {}) =>
     /\ (ret = "undefined") <=> BothZero
     /\ ~BothZero =>
          /\ StrictDen(ArgAspect) # {}
          /\ ret = RatioString(ArgAspect, MinOf(StrictDen(ArgAspect)))

\* C9 (amended): aspect_ratio is "undefined" iff both screen-size bytes are 0;
\* otherwise, if some denominator n in 1..20 is within the tolerance, the
\* result is the ratio of the smallest such n (a distance of exactly 0.01 may
\* count or not), reduced by the gcd and only then substituted, so that 8:5,
\* 5:8, 7:3 and 3:7 are never produced; if no denominator is within the
\* tolerance the result is the aspect printed with six decimals.
TheoremC9_RatioOrDecimal ==
  pc = "aspect_done" =>
     /\ (ret = "undefined") <=> BothZero
     /\ ret \notin {"8:5", "5:8", "7:3", "3:7"}
     /\ ~BothZero =>
          LET a == ArgAspect
              S == StrictDen(a)
              T == TieDen(a)
          IN \/ \E n \in S \cup T :
                  /\ \A k \in S : n <= k
                  /\ ret = RatioString(a, n)
             \/ /\ S = {}
                /\ ret = Sprintf_2f(a)

\* C9 witness: 7:3 is reached by the search and replaced by 21:9
WitnessC9_Substituted == pc = "aspect_done" /\ arg.h = 7 /\ arg.v = 3 /\ ret = "21:9"

\* C10 (as stated): bytes 61 and 90 give "16:9", bytes 0 and 0 give "undefined".
ClaimC10_SixteenNine ==
  pc = "aspect_done" =>
     /\ (arg.h = 61 /\ arg.v = 90) => ret = "16:9"
     /\ BothZero => ret = "undefined"

\* C10 (amended): bytes 61 and 90 give "11:16" (61/90, no substitution applies),
\* bytes 0 and 0 give "undefined".
TheoremC10_ElevenSixteen ==
  pc = "aspect_done" =>
     /\ (arg.h = 61 /\ arg.v = 90) => ret = "11:16"
     /\ BothZero => ret = "undefined"

\* C10 witness: the field has been computed for the bytes 61 and 90
WitnessC10_Computed == pc = "aspect_done" /\ arg.h = 61 /\ arg.v = 90 /\ ret = "11:16"

====
